---- MODULE Spec2Model ----
(***************************************************************************)
(* Model of the in-preview element inspector (inspector-script):           *)
(* hover / selection / text-editing state machine driven by DOM events     *)
(* and by messages from the parent window.                                 *)
(*                                                                         *)
(* The program state (module variables plus the part of the DOM the        *)
(* script reads and writes) is kept in one record per field below; each    *)
(* handler is an operator from a state record to a state record, so that   *)
(* nested calls (dblclick -> enableTextEditing -> focus() -> blur ->       *)
(* finalizeTextEdit) are composed exactly in the order the code runs them. *)
(***************************************************************************)
EXTENDS Integers, Sequences, FiniteSets, TLC

\* ------------------------------------------------------------------ bounds
\* Longest text the user can leave in an element while editing it.
MaxLen == 1

\* Characters a text is made of; " " is whitespace (removed by trim()).
Alphabet == {" ", "a"}

\* ------------------------------------------------------------- the document
NULL == "null"

\* Non-root elements of the previewed document, in document order.
BodyChildren == <<"p1", "p2", "d1">>

Elems == {BodyChildren[i] : i \in 1..Len(BodyChildren)}

\* document.body and document.documentElement
Roots == {"body", "html"}

Nodes == Elems \cup Roots

\* Static markup of the elements: tag, id and the attributes left on them by
\* the build-time plugin.  p1 is the element of the spec's scenario; p2 uses
\* the alternate (astro) attribute names and a text classification, and has a
\* source-file attribute but no source-location attribute; d1 is a container
\* with a structural child.
TagName == [p1 |-> "P", p2 |-> "P", d1 |-> "DIV", body |-> "BODY", html |-> "HTML"]

ElemId == [p1 |-> "", p2 |-> "", d1 |-> "box", body |-> "", html |-> ""]

Attrs ==
  [p1 |-> ("data-source-file" :> "Hero.tsx" @@ "data-source-loc" :> "12:4"),
   p2 |-> ("data-astro-source-file" :> "Page.astro" @@
           "data-text-type" :> "variable" @@
           "data-text-source" :> "title"),
   d1 |-> ("data-source-file" :> "App.tsx" @@ "data-source-loc" :> "1:1"),
   body |-> <<>>,
   html |-> <<>>]

\* Tags of the direct child elements at load time.
InitialChildren == [p1 |-> <<"span">>, p2 |-> <<>>, d1 |-> <<"div">>]

\* Text content at load time (p1 is surrounded by whitespace, as markup
\* written over several lines is).
InitialText == [p1 |-> <<" ", "b", " ">>, p2 |-> <<"b">>, d1 |-> <<"a", "b">>]

\* Marker classes the inspector puts on elements.
HIGHLIGHT == "inspector-highlight"
SELECTED == "inspector-selected"
EDITING == "inspector-editing"
ACTIVE == "inspector-active"

MarkerClasses == {HIGHLIGHT, SELECTED, EDITING, ACTIVE}

\* The class tokens the page's own markup puts on each element, in order.
StaticClass ==
  [p1 |-> <<"text">>, p2 |-> <<"text">>, d1 |-> <<"box">>,
   body |-> <<>>, html |-> <<>>]

\* Origin of each element in document coordinates.
DocPos ==
  [p1 |-> [x |-> 0, y |-> 0], p2 |-> [x |-> 0, y |-> 20],
   d1 |-> [x |-> 0, y |-> 40], body |-> [x |-> 0, y |-> 0],
   html |-> [x |-> 0, y |-> 0]]

\* findElementByInfo accepts an origin less than this far from the descriptor's.
Tolerance == 5

\* The page scrolls vertically in steps of ScrollStep, at most MaxScrolls of them.
ScrollStep == 4

MaxScrolls == 2

ScrollOffsets == {k * ScrollStep : k \in 0..MaxScrolls}

\* possiblePaths of injectStyleOverrides and reloadStyleOverrides
possiblePaths ==
  <<"/src/style-overrides.css", "/style-overrides.css", "./src/style-overrides.css">>

\* Properties and values the parent sets through APPLY_STYLE.
StyleProperties == {"color"}

StyleValues == {"red"}

\* Tags allowed as children of a text-editable element.
InlineTags == {"span", "strong", "em", "b", "i", "u", "a", "br"}

\* ------------------------------------------------------------------- texts
\* All texts of at most n characters.
RECURSIVE TextsUpTo(_)
TextsUpTo(n) ==
  IF n = 0 THEN {<<>>}
  ELSE LET shorter == TextsUpTo(n - 1)
       IN shorter \cup {Append(t, c) : t \in {u \in shorter : Len(u) = n - 1}, c \in Alphabet}

\* What the user can type into the element being edited.
TypedTexts == TextsUpTo(MaxLen)

IsWhitespace(c) == c = " "

RECURSIVE TrimStart(_)
TrimStart(t) ==
  IF t = <<>> THEN <<>>
  ELSE IF IsWhitespace(Head(t)) THEN TrimStart(Tail(t)) ELSE t

RECURSIVE TrimEnd(_)
TrimEnd(t) ==
  IF t = <<>> THEN <<>>
  ELSE IF IsWhitespace(t[Len(t)]) THEN TrimEnd(SubSeq(t, 1, Len(t) - 1)) ELSE t

\* String.prototype.trim
Trim(t) == TrimEnd(TrimStart(t))

\* String.prototype.slice(0, n)
Slice(t, n) == IF Len(t) <= n THEN t ELSE SubSeq(t, 1, n)


\* --------------------------------------------------------- program state
VARIABLES
  isInspectorActive,   \* let isInspectorActive
  currentHighlight,    \* let currentHighlight: element or NULL
  selectedElement,     \* let selectedElement: element or NULL
  inspectorStyle,      \* let inspectorStyle: TRUE when it refers to a style node
  editingElement,      \* let editingElement: element or NULL
  originalText,        \* let originalText
  classList,           \* marker classes carried by each node
  textContent,         \* element.textContent
  children,            \* tags of each element's direct child elements
  contentEditable,     \* element.contentEditable = 'true'
  dataset,             \* element.dataset.originalText, NULL when absent
  editListeners,       \* elements with the blur and keydown listeners attached
  docListeners,        \* the four capture listeners are attached to document
  headStyles,          \* number of inspector style nodes in document.head
  focused,             \* document.activeElement when it is an element, or NULL
  outbox,              \* messages posted to the parent by the last handler
  scrollY,             \* window.scrollY: vertical scroll offset of the page
  inlineStyle,         \* element.style: inline properties set on each element
  links,               \* override stylesheet links in document.head: path
                       \* index and whether the link was created by the most
                       \* recent injectStyleOverrides / reloadStyleOverrides
  sessionText,         \* history: trimmed text of the element when the open
                       \* edit session was entered (empty when none is open)
  ended                \* history: the edit session that lost focus in the last
                       \* step (its element, its text at entry and its text
                       \* when the focus was lost), or NoSession

vars == <<isInspectorActive, currentHighlight, selectedElement, inspectorStyle,
          editingElement, originalText, classList, textContent, children,
          contentEditable, dataset, editListeners, docListeners, headStyles,
          focused, outbox, scrollY, inlineStyle, links, sessionText,
          ended>>

NoSession == [elem |-> NULL, entryText |-> <<>>, finalText |-> <<>>]

\* No blur event has been dispatched to an element being edited.
NoBlur == [elem |-> NULL, text |-> <<>>]

\* The program state as one record, with nothing posted yet, no blur event
\* dispatched yet and no exception thrown yet by the handler that is to run.
Cur ==
  [active |-> isInspectorActive, highlight |-> currentHighlight,
   selected |-> selectedElement, style |-> inspectorStyle,
   editing |-> editingElement, originalText |-> originalText,
   classList |-> classList, textContent |-> textContent, children |-> children,
   contentEditable |-> contentEditable, dataset |-> dataset,
   editListeners |-> editListeners, docListeners |-> docListeners,
   headStyles |-> headStyles, focused |-> focused, outbox |-> <<>>,
   scrollY |-> scrollY, inlineStyle |-> inlineStyle, links |-> links,
   threw |-> FALSE, blurred |-> NoBlur]

\* ------------------------------------------------------------ DOM helpers
HasAttribute(e, name) == name \in DOMAIN Attrs[e]

\* element.getAttribute(name): NULL when the attribute is absent
GetAttribute(e, name) == IF HasAttribute(e, name) THEN Attrs[e][name] ELSE NULL

\* a || b on attribute values (null and '' are falsy)
OrElse(a, b) == IF a # NULL /\ a # "" THEN a ELSE b

\* element.classList.add / remove
AddClass(s, e, c) == [s EXCEPT !.classList[e] = @ \cup {c}]

RemoveClass(s, e, c) == [s EXCEPT !.classList[e] = @ \ {c}]

\* element.textContent = t : the children are replaced by one text node
SetTextContent(s, e, t) == [s EXCEPT !.textContent[e] = t, !.children[e] = <<>>]

\* window.parent.postMessage(m, '*')
PostMessage(s, m) == [s EXCEPT !.outbox = Append(@, m)]

\* ------------------------------------------------- descriptor of an element
\* getElementXPath: the id when there is one, else the positional path
\* /html/body/tag[index], index counted among the preceding same-tag siblings.
IndexOf(e) == CHOOSE i \in 1..Len(BodyChildren) : BodyChildren[i] = e

SameTagIndex(e) ==
  1 + Cardinality({i \in 1..(IndexOf(e) - 1) : TagName[BodyChildren[i]] = TagName[e]})

getElementXPath(e) ==
  IF ElemId[e] # "" THEN <<"id", ElemId[e]>>
  ELSE <<"html", "body", TagName[e], SameTagIndex(e)>>

\* The editability test without its structural-children rule.
hasEditableTextAnyChildren(s, e) ==
  LET hasSource == HasAttribute(e, "data-source-file") \/
                   HasAttribute(e, "data-astro-source-file")
      text == Trim(s.textContent[e])
  IN IF ~hasSource THEN FALSE
     ELSE IF text = <<>> THEN FALSE
     ELSE TRUE

hasEditableText(s, e) ==
  LET hasSource == HasAttribute(e, "data-source-file") \/
                   HasAttribute(e, "data-astro-source-file")
      text == Trim(s.textContent[e])
      hasComplexChildren ==
        \E i \in 1..Len(s.children[e]) : s.children[e][i] \notin InlineTags
  IN IF ~hasSource THEN FALSE
     ELSE IF text = <<>> THEN FALSE
     ELSE IF hasComplexChildren THEN FALSE
     ELSE TRUE

\* element.className: the page's class tokens followed by the marker classes
\* the script has added (classList serialises its tokens with single spaces;
\* the order of the markers among themselves is never compared).
MarkerOrder == <<HIGHLIGHT, SELECTED, EDITING, ACTIVE>>

ClassName(s, e) ==
  StaticClass[e] \o SelectSeq(MarkerOrder, LAMBDA c : c \in s.classList[e])

\* className.split(/\s+/).filter(c => !c.startsWith('inspector-')).join(' ')
StripInspectorClasses(className) ==
  SelectSeq(className, LAMBDA c : c \notin MarkerClasses)

\* element.getBoundingClientRect(): the origin relative to the viewport
GetBoundingClientRect(s, e) ==
  [x |-> DocPos[e].x, y |-> DocPos[e].y - s.scrollY]

createElementInfo(s, e) ==
  [tagName |-> TagName[e],
   className |-> StripInspectorClasses(ClassName(s, e)),
   id |-> ElemId[e],
   rect |-> GetBoundingClientRect(s, e),
   textContent |-> Slice(Trim(s.textContent[e]), 100),
   xpath |-> getElementXPath(e),
   sourceFile |-> OrElse(GetAttribute(e, "data-source-file"),
                         OrElse(GetAttribute(e, "data-astro-source-file"), "")),
   sourceLoc |-> OrElse(GetAttribute(e, "data-source-loc"),
                        OrElse(GetAttribute(e, "data-astro-source-loc"), "")),
   isTextEditable |-> hasEditableText(s, e)]

\* element.dataset.originalText: the element's data attributes written by the
\* script, a function from key to value (empty when there is none)
NoData == <<>>

HasData(s, e) == "originalText" \in DOMAIN s.dataset[e]

\* element.dataset.originalText || ''
DataOrEmpty(s, e) == IF HasData(s, e) THEN s.dataset[e]["originalText"] ELSE <<>>

\* ------------------------------------------------------- text-edit workflow
finalizeTextEdit(s, element) ==
  LET newText == Trim(s.textContent[element])
      oldText == DataOrEmpty(s, element)
      \* remove editable state, remove the listeners, clear the reference
      s1 == [AddClass(RemoveClass(s, element, EDITING), element, SELECTED)
               EXCEPT !.contentEditable[element] = FALSE,
                      !.editListeners = @ \ {element},
                      !.editing = NULL]
      s2 == IF newText # oldText /\ Len(newText) > 0
            THEN PostMessage(s1,
                   [type |-> "TEXT_CHANGE",
                    sourceFile |-> OrElse(GetAttribute(element, "data-source-file"),
                                     OrElse(GetAttribute(element, "data-astro-source-file"), "")),
                    sourceLoc |-> OrElse(GetAttribute(element, "data-source-loc"),
                                    OrElse(GetAttribute(element, "data-astro-source-loc"), "")),
                    oldText |-> oldText,
                    newText |-> newText,
                    textType |-> OrElse(GetAttribute(element, "data-text-type"), "literal"),
                    textSource |-> OrElse(GetAttribute(element, "data-text-source"), ""),
                    elementInfo |-> createElementInfo(s1, element)])
            ELSE IF Len(newText) = 0
            THEN SetTextContent(s1, element, oldText)
            ELSE s1
  IN [s2 EXCEPT !.dataset[element] = NoData]

\* handleTextEditBlur: the blur listener of an element being edited
handleTextEditBlur(s, element) == finalizeTextEdit(s, element)

\* The browser takes the focus away from element e (element.blur(), or the
\* focus moving elsewhere): the blur event is dispatched synchronously and
\* runs the listener when one is attached.  The dispatch to an element being
\* edited is recorded with the element's trimmed text at that moment.
DispatchBlur(s, e) ==
  LET s1 == [s EXCEPT !.focused = NULL]
  IN IF e \in s.editListeners
     THEN handleTextEditBlur(
            [s1 EXCEPT !.blurred = [elem |-> e, text |-> Trim(s.textContent[e])]], e)
     ELSE s1

\* element.blur(): nothing happens unless the element has the focus
Blur(s, e) == IF s.focused = e THEN DispatchBlur(s, e) ELSE s

\* element.focus(): the element that had the focus loses it first
Focus(s, e) ==
  IF s.focused = e THEN s
  ELSE LET s1 == IF s.focused # NULL THEN DispatchBlur(s, s.focused) ELSE s
       IN [s1 EXCEPT !.focused = e]

\* (The deferred selection of the element's text, 10 ms after the focus, reads
\* and writes no state of the inspector and is left out.)
enableTextEditing(s, element) ==
  LET text == Trim(s.textContent[element])
      \* store the original text, make the element editable
      s1 == [s EXCEPT !.originalText = text,
                      !.dataset[element] = ("originalText" :> text),
                      !.contentEditable[element] = TRUE]
      s2 == RemoveClass(RemoveClass(AddClass(s1, element, EDITING),
                                    element, SELECTED), element, HIGHLIGHT)
      s3 == Focus(s2, element)
  IN [s3 EXCEPT !.editing = element, !.editListeners = @ \cup {element}]

\* handleTextEditKeydown: the keydown listener of an element being edited
handleTextEditKeydown(s, element, key, shiftKey) ==
  IF key = "Enter" /\ ~shiftKey THEN Blur(s, element)
  ELSE IF key = "Escape"
  THEN Blur(SetTextContent(s, element, DataOrEmpty(s, element)), element)
  ELSE s

\* ---------------------------------------------------------- pointer handlers
\* handleMouseMove with the removal of the previous highlight left out.
handleMouseMoveKeepsPrevious(s, target) ==
  IF ~s.active THEN s
  ELSE IF target \in Roots THEN s
  ELSE IF s.highlight = target THEN s
  ELSE LET s2 == IF target # s.selected THEN AddClass(s, target, HIGHLIGHT) ELSE s
           s3 == [s2 EXCEPT !.highlight = target]
       IN PostMessage(s3, [type |-> "INSPECTOR_HOVER",
                           elementInfo |-> createElementInfo(s3, target)])

handleMouseMove(s, target) ==
  IF ~s.active THEN s
  ELSE IF target \in Roots THEN s
  ELSE IF s.highlight = target THEN s
  ELSE LET s1 == IF s.highlight # NULL /\ s.highlight # s.selected
                 THEN RemoveClass(s, s.highlight, HIGHLIGHT) ELSE s
           s2 == IF target # s.selected THEN AddClass(s1, target, HIGHLIGHT) ELSE s1
           s3 == [s2 EXCEPT !.highlight = target]
       IN PostMessage(s3, [type |-> "INSPECTOR_HOVER",
                           elementInfo |-> createElementInfo(s3, target)])

handleClick(s, target) ==
  IF ~s.active THEN s
  ELSE IF target \in Roots THEN s
  ELSE LET s1 == IF s.selected # NULL
                 THEN RemoveClass(s, s.selected, SELECTED) ELSE s
           s2 == IF s1.highlight # NULL
                 THEN RemoveClass(s1, s1.highlight, HIGHLIGHT) ELSE s1
           s3 == [AddClass(s2, target, SELECTED) EXCEPT !.selected = target]
       IN PostMessage(s3, [type |-> "INSPECTOR_CLICK",
                           elementInfo |-> createElementInfo(s3, target)])

handleMouseLeave(s) ==
  IF ~s.active THEN s
  ELSE LET s1 == IF s.highlight # NULL /\ s.highlight # s.selected
                 THEN RemoveClass(s, s.highlight, HIGHLIGHT) ELSE s
       IN PostMessage([s1 EXCEPT !.highlight = NULL], [type |-> "INSPECTOR_LEAVE"])

handleDoubleClick(s, target) ==
  IF ~s.active THEN s
  ELSE IF target \in Roots THEN s
  ELSE IF createElementInfo(s, target).isTextEditable
       THEN enableTextEditing(s, target)
       ELSE s

\* ------------------------------------------------ activation / deactivation
\* The activation that does not test whether the inspector is active already.
activateInspectorAgain(s) ==
  [AddClass(s, "body", ACTIVE)
     EXCEPT !.active = TRUE,
            !.style = TRUE,
            !.headStyles = @ + 1,
            !.docListeners = TRUE]

activateInspector(s) ==
  IF s.active THEN s
  ELSE [AddClass(s, "body", ACTIVE)
          EXCEPT !.active = TRUE,
                 !.style = TRUE,
                 !.headStyles = @ + 1,
                 !.docListeners = TRUE]

deactivateInspector(s) ==
  IF ~s.active THEN s
  ELSE LET s1 == [RemoveClass(s, "body", ACTIVE)
                    EXCEPT !.active = FALSE, !.docListeners = FALSE]
           s2 == IF s1.highlight # NULL
                 THEN [RemoveClass(s1, s1.highlight, HIGHLIGHT) EXCEPT !.highlight = NULL]
                 ELSE s1
           s3 == IF s2.selected # NULL
                 THEN [RemoveClass(s2, s2.selected, SELECTED) EXCEPT !.selected = NULL]
                 ELSE s2
       IN IF s3.style
          THEN [s3 EXCEPT !.headStyles = @ - 1, !.style = FALSE]
          ELSE s3

\* ------------------------------------------------- style override links
\* A link element of document.head: its candidate path, whether its href has
\* the cache-busting query, and whether the most recent injection created it.
NewLinks(busted) ==
  {[path |-> possiblePaths[i], busted |-> busted, fresh |-> TRUE] :
     i \in 1..Len(possiblePaths)}

\* The links already present are no longer those of the most recent injection.
Age(ls) == {[l EXCEPT !.fresh = FALSE] : l \in ls}

\* link[href*="style-overrides.css"]
OverrideLinks(ls) ==
  {l \in ls : \E i \in 1..Len(possiblePaths) : l.path = possiblePaths[i]}

injectStyleOverrides(s) ==
  IF OverrideLinks(s.links) # {} THEN s
  ELSE [s EXCEPT !.links = Age(@) \cup NewLinks(FALSE)]

\* The reload that appends its links without removing the existing ones.
reloadStyleOverridesKeepsOld(s) ==
  [s EXCEPT !.links = Age(@) \cup NewLinks(TRUE)]

reloadStyleOverrides(s) ==
  LET existingLinks == OverrideLinks(s.links)
  IN [s EXCEPT !.links = Age(@ \ existingLinks) \cup NewLinks(TRUE)]

\* ------------------------------------------------- resolving a descriptor
\* A field the sender left out reads as undefined.
Undefined == [jsUndefined |-> TRUE]

Has(r, f) == f \in DOMAIN r

Abs(n) == IF n < 0 THEN 0 - n ELSE n

DocumentOrder == <<"html", "body">> \o BodyChildren

\* The id lookup that finds nothing.
GetElementByIdFindsNone(id) == NULL

\* document.getElementById(id): the first element in tree order with that id
GetElementById(id) ==
  LET hits == {i \in 1..Len(DocumentOrder) : ElemId[DocumentOrder[i]] = id}
  IN IF hits = {} THEN NULL
     ELSE DocumentOrder[CHOOSE i \in hits : \A j \in hits : i <= j]

\* document.querySelectorAll(tagName): the elements of that tag in tree order
QuerySelectorAll(tagName) ==
  SelectSeq(DocumentOrder, LAMBDA n : TagName[n] = tagName)

\* The resolver that falls back to the highlighted element.
findElementByInfoFallsBackToHighlight(s, elementInfo) ==
  [threw |-> FALSE, elem |-> s.highlight]

\* findElementByInfo: the element found, or that reading the descriptor threw.
findElementByInfo(s, elementInfo) ==
  IF elementInfo = Undefined THEN [threw |-> TRUE, elem |-> NULL]
  ELSE
    LET byId == IF Has(elementInfo, "id") /\ elementInfo.id # ""
                THEN GetElementById(elementInfo.id) ELSE NULL
        idHit == /\ byId # NULL
                 /\ Has(elementInfo, "tagName")
                 /\ TagName[byId] = elementInfo.tagName
        elements == IF Has(elementInfo, "tagName")
                    THEN QuerySelectorAll(elementInfo.tagName) ELSE <<>>
        classHits == {i \in 1..Len(elements) :
                        /\ Has(elementInfo, "className")
                        /\ ClassName(s, elements[i]) = elementInfo.className}
        Near(i) ==
          LET rect == GetBoundingClientRect(s, elements[i])
          IN /\ Abs(rect.x - elementInfo.rect.x) < Tolerance
             /\ Abs(rect.y - elementInfo.rect.y) < Tolerance
    IN IF idHit THEN [threw |-> FALSE, elem |-> byId]
       ELSE IF classHits # {} /\ ~Has(elementInfo, "rect")
       THEN [threw |-> TRUE, elem |-> NULL]
       ELSE LET hits == {i \in classHits : Near(i)}
            IN IF hits # {}
               THEN [threw |-> FALSE,
                     elem |-> elements[CHOOSE i \in hits : \A j \in hits : i <= j]]
               ELSE [threw |-> FALSE, elem |-> s.selected]

\* element.style.setProperty(property, value); a missing name or value sets
\* nothing.
SetProperty(s, e, style) ==
  IF Has(style, "property") /\ Has(style, "value")
  THEN [s EXCEPT !.inlineStyle[e] = (style.property :> style.value) @@ @]
  ELSE s

\* handleMessage: the router of the commands posted by the parent
handleMessage(s, data) ==
  LET type == IF Has(data, "type") THEN data.type ELSE "undefined"
  IN IF type = "INSPECTOR_ACTIVATE"
     THEN IF Has(data, "active") /\ data.active
          THEN activateInspector(s) ELSE deactivateInspector(s)
     ELSE IF type = "APPLY_STYLE"
     THEN LET found == findElementByInfo(s,
                         IF Has(data, "elementInfo") THEN data.elementInfo
                         ELSE Undefined)
          IN IF found.threw THEN [s EXCEPT !.threw = TRUE]
             ELSE IF found.elem # NULL /\ Has(data, "style")
             THEN SetProperty(s, found.elem, data.style)
             ELSE s
     ELSE IF type = "RELOAD_CSS_OVERRIDES"
     THEN reloadStyleOverrides(s)
     ELSE s

\* ------------------------------------------------------------------ actions
\* An edit session is open on the element that has the focus and the
\* listeners of enableTextEditing.
SessionElem(s) ==
  IF s.focused # NULL /\ s.focused \in s.editListeners THEN s.focused ELSE NULL

\* The handler has run to completion on the current state and left it as s;
\* the history of the edit sessions is brought up to date.
Commit(s) ==
  /\ isInspectorActive' = s.active
  /\ currentHighlight' = s.highlight
  /\ selectedElement' = s.selected
  /\ inspectorStyle' = s.style
  /\ editingElement' = s.editing
  /\ originalText' = s.originalText
  /\ classList' = s.classList
  /\ textContent' = s.textContent
  /\ children' = s.children
  /\ contentEditable' = s.contentEditable
  /\ dataset' = s.dataset
  /\ editListeners' = s.editListeners
  /\ docListeners' = s.docListeners
  /\ headStyles' = s.headStyles
  /\ focused' = s.focused
  /\ outbox' = s.outbox
  /\ scrollY' = s.scrollY
  /\ inlineStyle' = s.inlineStyle
  /\ links' = s.links
  /\ sessionText' = IF SessionElem(s) # NULL /\ SessionElem(s) # SessionElem(Cur)
                    THEN Trim(textContent[SessionElem(s)])
                    ELSE IF SessionElem(s) = NULL THEN <<>>
                    ELSE sessionText
  /\ ended' = IF s.blurred.elem # NULL
              THEN [elem |-> s.blurred.elem, entryText |-> sessionText,
                    finalText |-> s.blurred.text]
              ELSE NoSession

\* The pointer events reach the document-level capture listeners, which run
\* only while they are attached.
MouseMove(target) ==
  /\ docListeners
  /\ Commit(handleMouseMove(Cur, target))

Click(target) ==
  /\ docListeners
  /\ Commit(handleClick(Cur, target))

DoubleClick(target) ==
  /\ docListeners
  /\ Commit(handleDoubleClick(Cur, target))

MouseLeave ==
  /\ docListeners
  /\ Commit(handleMouseLeave(Cur))

\* The user changes the text of the element being edited.
Input(text) ==
  /\ focused # NULL
  /\ contentEditable[focused]
  /\ text # textContent[focused]
  /\ Commit([Cur EXCEPT !.textContent[focused] = text])

\* A key is pressed while the element being edited has the focus.
KeyDown(key, shiftKey) ==
  /\ focused # NULL
  /\ Commit(IF focused \in editListeners
            THEN handleTextEditKeydown(Cur, focused, key, shiftKey)
            ELSE Cur)

\* The element being edited loses the focus (click elsewhere, tab, window blur).
LoseFocus ==
  /\ focused # NULL
  /\ Commit(DispatchBlur(Cur, focused))

\* The parent window posts an activate command.
Receive(active) ==
  /\ active \in BOOLEAN
  /\ Commit(handleMessage(Cur, [type |-> "INSPECTOR_ACTIVATE", active |-> active]))

Keys == {"Enter", "Escape", "x"}

\* The page is scrolled; the script has no scroll listener.
Scroll(offset) ==
  /\ offset \in ScrollOffsets
  /\ offset # scrollY
  /\ Commit([Cur EXCEPT !.scrollY = offset])

\* An override link fails to load: its onerror handler removes it.
LinkError(link) ==
  /\ link \in links
  /\ Commit([Cur EXCEPT !.links = @ \ {link}])

\* The descriptors the parent may send back: those the script built for an
\* element at some scroll offset of the page, the same without their
\* geometry, and descriptors of elements that are not in the page.
BuiltDescriptors ==
  {createElementInfo([Cur EXCEPT !.scrollY = offset], e) :
     e \in Elems, offset \in ScrollOffsets}

WithoutRect(d) == [f \in DOMAIN d \ {"rect"} |-> d[f]]

AbsentDescriptors ==
  {[tagName |-> "H1", className |-> <<>>, id |-> "",
    rect |-> [x |-> 0, y |-> 0]],
   [tagName |-> "P", className |-> <<"text">>, id |-> "gone",
    rect |-> [x |-> 100, y |-> 100]]}

Descriptors ==
  BuiltDescriptors \cup {WithoutRect(d) : d \in BuiltDescriptors}
    \cup AbsentDescriptors

Styles == [property : StyleProperties, value : StyleValues]

\* The messages a window may post to the page: the three commands, with and
\* without their fields, and messages of other kinds or of no kind.
ReloadMessage == [type |-> "RELOAD_CSS_OVERRIDES"]

ActivateMessages == {[type |-> "INSPECTOR_ACTIVATE", active |-> a] : a \in BOOLEAN}

Messages ==
  ActivateMessages
    \cup {[type |-> "APPLY_STYLE", elementInfo |-> d, style |-> st] :
            d \in Descriptors, st \in Styles}
    \cup {[type |-> "APPLY_STYLE", elementInfo |-> d] : d \in Descriptors}
    \cup {[type |-> "APPLY_STYLE", style |-> st] : st \in Styles}
    \cup {[type |-> "INSPECTOR_ACTIVATE"], [type |-> "APPLY_STYLE"],
          ReloadMessage, [type |-> "SOMETHING_ELSE"],
          [active |-> TRUE]}

MessageFields == {"type", "active", "elementInfo", "style"}

\* A message event reaches the window's message listener.
ReceiveMessage(data) ==
  /\ DOMAIN data \subseteq MessageFields
  /\ Commit(handleMessage(Cur, data))

\* init() has run: the message listener is attached and the ready event posted.
Init ==
  /\ isInspectorActive = FALSE
  /\ currentHighlight = NULL
  /\ selectedElement = NULL
  /\ inspectorStyle = FALSE
  /\ editingElement = NULL
  /\ originalText = <<>>
  /\ classList = [n \in Nodes |-> {}]
  /\ textContent = InitialText
  /\ children = InitialChildren
  /\ contentEditable = [e \in Elems |-> FALSE]
  /\ dataset = [e \in Elems |-> NoData]
  /\ editListeners = {}
  /\ docListeners = FALSE
  /\ headStyles = 0
  /\ focused = NULL
  /\ outbox = <<[type |-> "INSPECTOR_READY"]>>
  /\ scrollY = 0
  /\ inlineStyle = [n \in Nodes |-> <<>>]
  /\ links = injectStyleOverrides([links |-> {}]).links
  /\ sessionText = <<>>
  /\ ended = NoSession

Next ==
  \/ \E target \in Nodes : MouseMove(target)
  \/ \E target \in Nodes : Click(target)
  \/ \E target \in Nodes : DoubleClick(target)
  \/ MouseLeave
  \/ \E text \in TypedTexts : Input(text)
  \/ \E key \in Keys, shiftKey \in BOOLEAN : KeyDown(key, shiftKey)
  \/ LoseFocus
  \/ \E active \in BOOLEAN : Receive(active)

Spec == Init /\ [][Next]_vars

\* The page under the pointer and the parent's activate and apply-style
\* commands, well-formed or not, while the page scrolls; no text is typed.
NextChannel ==
  \/ \E target \in Nodes : MouseMove(target)
  \/ \E target \in Nodes : Click(target)
  \/ \E target \in Nodes : DoubleClick(target)
  \/ LoseFocus
  \/ \E data \in Messages \ {ReloadMessage} : ReceiveMessage(data)
  \/ \E offset \in ScrollOffsets : Scroll(offset)

SpecChannel == Init /\ [][NextChannel]_vars

\* The page under the pointer, the parent's activate and reload commands and
\* the loading of the override links.
NextLinks ==
  \/ \E target \in Nodes : MouseMove(target)
  \/ \E target \in Nodes : Click(target)
  \/ \E data \in ActivateMessages \cup {ReloadMessage} : ReceiveMessage(data)
  \/ \E link \in links : LinkError(link)

SpecLinks == Init /\ [][NextLinks]_vars

\* ------------------------------------------------------------- properties
\* The text-change events among the messages the last handler posted.
TextChanges == SelectSeq(outbox, LAMBDA m : m.type = "TEXT_CHANGE")

\* C1: when an edit session entered with trimmed text T loses the focus with
\* trimmed text N, N non-empty and different from T, exactly one text-change
\* event is posted, with oldText = T, newText = N, and textType "literal"
\* when the element has no data-text-type attribute.
C1_CommitEmitsTextChange ==
  (ended.elem # NULL /\ ended.finalText # <<>> /\ ended.finalText # ended.entryText)
    => /\ Len(TextChanges) = 1
       /\ TextChanges[1].oldText = ended.entryText
       /\ TextChanges[1].newText = ended.finalText
       /\ ~HasAttribute(ended.elem, "data-text-type")
            => TextChanges[1].textType = "literal"

\* C2: when an edit session loses the focus with an empty trimmed text, no
\* text-change event is posted and the element's text is set back to the
\* text of the element when the session was entered.
C2_EmptyCommitRestores ==
  (ended.elem # NULL /\ ended.finalText = <<>>)
    => /\ TextChanges = <<>>
       /\ textContent[ended.elem] = ended.entryText

\* C3: Escape pressed during an edit session restores the text the session
\* was entered with, ends the session (element not editable, editing
\* reference cleared) and posts no text-change event.
C3_EscapeRestoresOriginal ==
  [][\A shiftKey \in BOOLEAN :
       (SessionElem(Cur) # NULL /\ KeyDown("Escape", shiftKey))
         => /\ textContent'[focused] = sessionText
            /\ ~contentEditable'[focused]
            /\ editingElement' = NULL
            /\ SelectSeq(outbox', LAMBDA m : m.type = "TEXT_CHANGE") = <<>>]_vars

\* C4: while the inspector is active, an element that carries the selected
\* marker class is the element held in selectedElement (so at most one does).
C4_SelectedMarkerIsSelectedElement ==
  isInspectorActive =>
    \A e \in Elems : SELECTED \in classList[e] => e = selectedElement

\* C5: the element being edited never carries the highlight marker class.
C5_EditingNotHighlighted ==
  editingElement # NULL => HIGHLIGHT \notin classList[editingElement]

\* C6: a double-click delivered while an edit session is open starts no new
\* session and leaves the recorded original text of the open session alone.
C6_NoEntryWhileEditing ==
  [][\A target \in Nodes :
       (editingElement # NULL /\ DoubleClick(target))
         => /\ editingElement' = editingElement
            /\ originalText' = originalText
            /\ dataset' = dataset]_vars

\* No element carries the highlight or the selected marker, both references
\* are empty, the document listeners are detached, the engaged flag is
\* cleared and the stylesheet is removed.
Deactivated(s) ==
  /\ \A e \in Nodes : s.classList[e] \cap {HIGHLIGHT, SELECTED} = {}
  /\ s.highlight = NULL
  /\ s.selected = NULL
  /\ ~s.docListeners
  /\ ACTIVE \notin s.classList["body"]
  /\ s.headStyles = 0
  /\ ~s.style

\* C7: from a deactivation until the next activation, the document and the
\* inspector are in the deactivated condition above.
C7_InactiveIsClean == ~isInspectorActive => Deactivated(Cur)

\* C8: right after a deactivate command handled in an active state there is
\* no editing element (reference empty, no element editable or carrying the
\* editing marker) and no original text of an edit session is retained.
C8_DeactivationResetsEditing ==
  [][(isInspectorActive /\ Receive(FALSE))
       => /\ editingElement' = NULL
          /\ \A e \in Elems : ~contentEditable'[e] /\ EDITING \notin classList'[e]
          /\ originalText' = <<>>
          /\ \A e \in Elems : dataset'[e] = NoData]_vars

\* C9: activating and then deactivating, with no event in between, leaves no
\* element with an inspector class and no inspector stylesheet node.
C9_ActivateDeactivateLeavesNoTrace ==
  ~isInspectorActive =>
    LET s == deactivateInspector(activateInspector(Cur))
    IN /\ \A n \in Nodes : s.classList[n] \cap MarkerClasses = {}
       /\ s.headStyles = 0

\* C10: while browsing with element A highlighted and not selected, a pointer
\* move onto another non-root element B that is not selected takes the
\* highlight class off A, puts it on B, makes B the highlighted element and
\* posts exactly one message, the hover event describing B.
C10_HoverMovesHighlight ==
  [][\A b \in Elems :
       (/\ isInspectorActive /\ docListeners /\ editingElement = NULL
        /\ currentHighlight # NULL /\ currentHighlight # b
        /\ currentHighlight # selectedElement /\ b # selectedElement
        /\ MouseMove(b))
         => /\ HIGHLIGHT \notin classList'[currentHighlight]
            /\ HIGHLIGHT \in classList'[b]
            /\ currentHighlight' = b
            /\ Len(outbox') = 1
            /\ outbox'[1].type = "INSPECTOR_HOVER"
            /\ outbox'[1].elementInfo.xpath = getElementXPath(b)
            /\ outbox'[1].elementInfo =
                 createElementInfo([textContent |-> textContent',
                                    children |-> children',
                                    classList |-> classList',
                                    scrollY |-> scrollY'], b)]_vars

\* A state where p1 is highlighted, carries the class and is not selected, p2
\* is not selected, and the move onto p2 hands the highlight over to p2.
C10_Witness ==
  /\ isInspectorActive /\ docListeners /\ editingElement = NULL
  /\ currentHighlight = "p1" /\ HIGHLIGHT \in classList["p1"]
  /\ selectedElement \notin {"p1", "p2"}
  /\ LET s == handleMouseMove(Cur, "p2")
     IN s.highlight = "p2" /\ HIGHLIGHT \in s.classList["p2"] /\ Len(s.outbox) = 1

\* Element e has a direct child element whose tag is outside the inline
\* whitelist.
HasStructuralChild(e) ==
  \E i \in 1..Len(children[e]) : children[e][i] \notin InlineTags

\* C11: a double-click on an element that has a direct child outside the
\* inline whitelist opens no edit session and changes no inspector state: the
\* highlighted, selected and editing references, every marker class, the
\* editable flags and the focus stay as they were, and no event is posted.
C11_StructuralChildNeverEditable ==
  [][\A target \in Elems :
       (HasStructuralChild(target) /\ DoubleClick(target))
         => /\ currentHighlight' = currentHighlight
            /\ selectedElement' = selectedElement
            /\ editingElement' = editingElement
            /\ classList' = classList
            /\ contentEditable' = contentEditable
            /\ editListeners' = editListeners
            /\ dataset' = dataset
            /\ focused' = focused
            /\ outbox' = <<>>]_vars

\* An active state where d1, which has a source attribute, non-empty text and
\* a div child, is double-clicked while it is not being edited, and the
\* handler leaves it uneditable.
C11_Witness ==
  /\ isInspectorActive /\ docListeners
  /\ HasStructuralChild("d1")
  /\ HasAttribute("d1", "data-source-file")
  /\ Trim(textContent["d1"]) # <<>>
  /\ currentHighlight = "d1" /\ selectedElement = "d1"
  /\ LET s == handleDoubleClick(Cur, "d1")
     IN s.editing = NULL /\ ~s.contentEditable["d1"] /\ s.outbox = <<>>

\* The descriptor the script built from e when the page was scrolled to
\* offset and e carried the marker classes markers.
DescriptorBuiltAt(e, offset, markers) ==
  createElementInfo([Cur EXCEPT !.scrollY = offset, !.classList[e] = markers], e)

MatchesLiveElement(d) ==
  \E n \in Nodes :
    \/ d.id # "" /\ ElemId[n] = d.id /\ TagName[n] = d.tagName
    \/ /\ TagName[n] = d.tagName
       /\ StripInspectorClasses(ClassName(Cur, n)) = d.className
       /\ Abs(GetBoundingClientRect(Cur, n).x - d.rect.x) < Tolerance
       /\ Abs(GetBoundingClientRect(Cur, n).y - d.rect.y) < Tolerance

ApplyStyle(d, st) == [type |-> "APPLY_STYLE", elementInfo |-> d, style |-> st]

\* C13: while no element is selected, an apply-style command whose descriptor
\* names no live element, neither by id nor by tag, class and position, sets
\* no inline style, changes nothing else of the state and throws nothing.
C13_UnmatchedApplyStyleIsNoOp ==
  selectedElement = NULL
    => \A d \in BuiltDescriptors \cup AbsentDescriptors : \A st \in Styles :
         ~MatchesLiveElement(d)
           => LET s == handleMessage(Cur, ApplyStyle(d, st))
              IN ~s.threw /\ s = Cur

\* The inspector has been deactivated, so nothing is selected, after a style
\* was applied to p1; the page has scrolled out of the tolerance of the
\* descriptor built from the id-less p1 at offset 0, which now names no live
\* element and is handled without effect.
C13_Witness ==
  /\ ~isInspectorActive /\ selectedElement = NULL
  /\ DOMAIN inlineStyle["p1"] # {}
  /\ LET d == DescriptorBuiltAt("p1", 0, {})
         s == handleMessage(Cur, ApplyStyle(d, [property |-> "color", value |-> "red"]))
     IN ~MatchesLiveElement(d) /\ ~s.threw /\ s.inlineStyle = inlineStyle

\* The malformed messages: of an unknown kind, of no kind, and of a known
\* kind without some of its fields.
MalformedMessages ==
  {[type |-> "SOMETHING_ELSE"], [active |-> TRUE],
   [type |-> "INSPECTOR_ACTIVATE"], [type |-> "APPLY_STYLE"]}
    \cup {[type |-> "APPLY_STYLE", style |-> st] : st \in Styles}
    \cup {[type |-> "APPLY_STYLE", elementInfo |-> d] : d \in Descriptors}
    \cup {ApplyStyle(WithoutRect(d), st) : d \in BuiltDescriptors, st \in Styles}

\* C14: in every reachable state the router handles every malformed message
\* (unknown kind, no kind, a known kind with missing fields: apply-style
\* without a descriptor, with a descriptor that lacks its geometry, or
\* without a style) without throwing and without changing the state.
C14_MalformedMessageIgnored ==
  \A data \in MalformedMessages :
    LET s == handleMessage(Cur, data)
    IN ~s.threw /\ s = Cur

\* The same for the messages of an unknown kind or of no kind only.
UnknownKindIgnored ==
  \A data \in {[type |-> "SOMETHING_ELSE"], [active |-> TRUE]} :
    LET s == handleMessage(Cur, data)
    IN ~s.threw /\ s = Cur

\* C15: after init and any number of reload commands, the override links in
\* the head are only those the most recent injection created, at most one
\* for each candidate path and so at most three; the links of an earlier
\* injection are gone.
C15_OnlyLatestOverrideLinks ==
  /\ \A l \in links : l.fresh
  /\ \A l1, l2 \in links : l1.path = l2.path => l1 = l2
  /\ Cardinality(links) <= Len(possiblePaths)

\* A reload has replaced the links of init by cache-busting ones, and one of
\* the new links has failed to load and removed itself.
C15_Witness ==
  /\ links # {}
  /\ \A l \in links : l.busted
  /\ Cardinality(links) = Len(possiblePaths) - 1

\* The elements of the descriptor's tag, in tree order, whose class string
\* with the marker classes set aside equals the descriptor's and whose origin
\* is within the tolerance of the descriptor's on both axes.
NormalizedMatches(d) ==
  LET elements == QuerySelectorAll(d.tagName)
  IN SelectSeq(elements,
       LAMBDA n : /\ StripInspectorClasses(ClassName(Cur, n)) = d.className
                  /\ Abs(GetBoundingClientRect(Cur, n).x - d.rect.x) < Tolerance
                  /\ Abs(GetBoundingClientRect(Cur, n).y - d.rect.y) < Tolerance)

\* C16: a descriptor with an empty id resolves to the first element of its
\* tag whose class string, marker classes set aside, equals the descriptor's
\* and whose origin is within 5 units of the descriptor's on both axes; so
\* the descriptor built from an id-less element that has not moved resolves
\* to that element, whatever marker classes it carries and whichever element
\* is selected.
C16_ClassAndPositionResolve ==
  /\ \A d \in BuiltDescriptors :
       (d.id = "" /\ NormalizedMatches(d) # <<>>)
         => findElementByInfo(Cur, d).elem = NormalizedMatches(d)[1]
  /\ \A e \in Elems :
       ElemId[e] = "" => findElementByInfo(Cur, createElementInfo(Cur, e)).elem = e

\* The element carries a source-location attribute, under either name.
HasSourceLoc(e) ==
  HasAttribute(e, "data-source-loc") \/ HasAttribute(e, "data-astro-source-loc")

\* C17: a double-click opens an edit session only on an element that carries
\* a source-location attribute and whose trimmed text is not empty, and so
\* every text-change event posted carries a non-empty sourceLoc.
C17_SessionOnlyWithSourceLoc ==
  [][/\ \A target \in Elems :
          (/\ DoubleClick(target)
           /\ editingElement # target /\ editingElement' = target)
            => HasSourceLoc(target) /\ Trim(textContent[target]) # <<>>
     /\ \A i \in 1..Len(TextChanges') : TextChanges'[i].sourceLoc # ""]_vars

\* C18: in every reachable state at most one element carries the highlight
\* class, the element that carries it is the one the script holds as its
\* highlighted element, and no element carries the highlight class and the
\* selected class at once.
C18_SingleHighlight ==
  /\ Cardinality({n \in Nodes : HIGHLIGHT \in classList[n]}) <= 1
  /\ \A n \in Nodes : HIGHLIGHT \in classList[n] => n = currentHighlight
  /\ \A n \in Nodes : ~(HIGHLIGHT \in classList[n] /\ SELECTED \in classList[n])

\* The state of the script and of the page, without what the last handler
\* posted and without the history of the edit sessions.
programState ==
  <<isInspectorActive, currentHighlight, selectedElement, inspectorStyle,
    editingElement, originalText, classList, textContent, children,
    contentEditable, dataset, editListeners, docListeners, headStyles,
    focused, scrollY, inlineStyle, links>>

\* One inspector style node is in the head while the inspector is active,
\* none while it is inactive.
StyleNodePresentIffActive ==
  /\ headStyles = (IF isInspectorActive THEN 1 ELSE 0)
  /\ inspectorStyle = isInspectorActive

\* C19: an activate command received while the inspector is active, and a
\* deactivate command received while it is inactive, change nothing of the
\* state and post nothing; and in every state exactly one inspector style
\* node is present while active and none while inactive.
C19_ReplayedCommandIsNoOp ==
  [][/\ (isInspectorActive /\ Receive(TRUE))
          => (programState' = programState /\ outbox' = <<>>)
     /\ (~isInspectorActive /\ Receive(FALSE))
          => (programState' = programState /\ outbox' = <<>>)
     /\ StyleNodePresentIffActive
     /\ StyleNodePresentIffActive']_vars

\* The inspector is active with one style node, p1 highlighted and p2
\* selected, and a second activate command leaves all of it as it is.
C19_Witness ==
  /\ isInspectorActive /\ headStyles = 1
  /\ currentHighlight = "p1" /\ selectedElement = "p2"
  /\ handleMessage(Cur, [type |-> "INSPECTOR_ACTIVATE", active |-> TRUE]) = Cur

\* C20: while the inspector is inactive no step posts an event to the parent
\* (the ready event of init is the only one ever posted while inactive) and
\* no step adds a marker class to a node, whatever pointer, keyboard, focus
\* and message events arrive, also when a deactivate command arrives while an
\* edit session is open and the element then loses the focus.
C20_InactiveIsSilent ==
  [][(~isInspectorActive /\ ~isInspectorActive')
       => /\ outbox' = <<>>
          /\ \A n \in Nodes : (classList'[n] \cap MarkerClasses) \subseteq classList[n]]_vars

====
